---- MODULE Spec2Model ----
(***************************************************************************)
(* latin1str: the Latin1Str (borrowed) and Latin1String (owned) wrappers   *)
(* over WINDOWS-1252 bytes, src/src/lib.rs.                                *)
(*                                                                         *)
(* A byte is a number in 0..255, a byte slice a sequence of bytes, a Rust  *)
(* `str` the sequence of its Unicode scalar values (its storage is the     *)
(* UTF-8 encoding of that sequence, Utf8Encode).                           *)
(*                                                                         *)
(* The two library calls the crate delegates to are modelled by what the   *)
(* libraries do: encoding_rs's WINDOWS_1252.encode / .decode (the WHATWG   *)
(* windows-1252 index, numeric character references for unmappable text,   *)
(* BOM sniffing in decode) and std's BufRead::read_until.                  *)
(***************************************************************************)
EXTENDS Integers, Sequences, FiniteSets, TLC

VARIABLES
    cur, call,                      \* Spec: the value last produced, and the call that produced it
    pair, cmpres,                   \* SpecOrd: two values and the result of comparing them
    src, held, txt, rounds,         \* SpecCodec: decode / encode round trips
    content, pos, results, last     \* SpecStream: a byte stream read by read_cstring

vars == <<cur, call, pair, cmpres, src, held, txt, rounds, content, pos, results, last>>

valueVars  == <<cur, call>>
ordVars    == <<pair, cmpres>>
codecVars  == <<src, held, txt, rounds>>
streamVars == <<content, pos, results, last>>

(***************************************************************************)
(* Bounds of the model.                                                    *)
(***************************************************************************)
MaxLen == 3         \* longest byte slice handed to a constructor
MaxTextLen == 2     \* longest text (in scalar values) handed to encode
MaxOrdLen == 2      \* longest byte slice wrapped for a comparison
MaxBodyLen == 4     \* longest body after the optional BOM in the round-trip inputs
MaxStream == 3      \* longest stream content
MaxCalls == 3       \* read_cstring calls on one stream
MaxSched == 2       \* fill_buf outcomes that are scheduled (later ones deliver all that is left)
MaxRounds == 2      \* decode / encode round trips of one input

NUL == 0

None == [ty |-> "None"]

RECURSIVE SeqsUpTo(_, _)
SeqsUpTo(S, n) ==
    IF n = 0 THEN {<<>>}
    ELSE LET shorter == SeqsUpTo(S, n - 1)
         IN shorter \cup {Append(s, x) : s \in {t \in shorter : Len(t) = n - 1}, x \in S}

Min(x, y) == IF x <= y THEN x ELSE y

\* 0x00, 'A', 0x80 (the euro sign in windows-1252), 0xFC (u-umlaut)
ByteAlphabet == {0, 65, 128, 252}
ByteInputs == SeqsUpTo(ByteAlphabet, MaxLen)
OrdInputs == SeqsUpTo(ByteAlphabet, MaxOrdLen)

\* U+0000, 'A', U+00FC, U+20AC (byte 0x80), U+4E2D (not in windows-1252)
TextAlphabet == {0, 65, 252, 8364, 20013}
TextInputs == SeqsUpTo(TextAlphabet, MaxTextLen)

(***************************************************************************)
(* Byte-slice helpers of the standard library and memchr.                  *)
(***************************************************************************)
\* memchr(needle, haystack): Some(index of the first occurrence), 0-based, or None (-1 here)
RECURSIVE memchr_from(_, _, _)
memchr_from(needle, haystack, i) ==
    IF i > Len(haystack) THEN -1
    ELSE IF haystack[i] = needle THEN i - 1
    ELSE memchr_from(needle, haystack, i + 1)

RECURSIVE memrchr_from(_, _, _)
memrchr_from(needle, haystack, i) ==
    IF i < 1 THEN -1
    ELSE IF haystack[i] = needle THEN i - 1
    ELSE memrchr_from(needle, haystack, i - 1)

memrchr(needle, haystack) == memrchr_from(needle, haystack, Len(haystack))

memchr(needle, haystack) == memchr_from(needle, haystack, 1)

\* bytes.split_at(mid).0
split_at_0(bytes, mid) == SubSeq(bytes, 1, mid)

HasNul(bytes) == \E i \in 1..Len(bytes) : bytes[i] = NUL

(***************************************************************************)
(* UTF-8, the storage of a Rust str.                                       *)
(***************************************************************************)
Utf8EncodeCp(c) ==
    IF c < 128 THEN <<c>>
    ELSE IF c < 2048 THEN <<192 + (c \div 64), 128 + (c % 64)>>
    ELSE IF c < 65536 THEN <<224 + (c \div 4096), 128 + ((c \div 64) % 64), 128 + (c % 64)>>
    ELSE <<240 + (c \div 262144), 128 + ((c \div 4096) % 64),
           128 + ((c \div 64) % 64), 128 + (c % 64)>>

RECURSIVE Utf8Encode(_)
Utf8Encode(t) == IF t = <<>> THEN <<>> ELSE Utf8EncodeCp(Head(t)) \o Utf8Encode(Tail(t))

\* encoding_rs's ascii_valid_up_to: the length of the longest all-ASCII prefix
RECURSIVE ascii_valid_up_to_from(_, _)
ascii_valid_up_to_from(bytes, i) ==
    IF i > Len(bytes) \/ bytes[i] >= 128 THEN i - 1
    ELSE ascii_valid_up_to_from(bytes, i + 1)

ascii_valid_up_to(bytes) == ascii_valid_up_to_from(bytes, 1)

(***************************************************************************)
(* The windows-1252 index of the Encoding Standard: bytes 0x80..0x9F; every *)
(* other byte maps to the code point of the same number.                   *)
(***************************************************************************)
W1252High ==
    <<8364, 129, 8218, 402, 8222, 8230, 8224, 8225, 710, 8240, 352, 8249, 338, 141, 381, 143,
      144, 8216, 8217, 8220, 8221, 8226, 8211, 8212, 732, 8482, 353, 8250, 339, 157, 382, 376>>

decode_byte(b) == IF b < 128 \/ b >= 160 THEN b ELSE W1252High[b - 127]

RECURSIVE Digits(_)
Digits(n) == IF n < 10 THEN <<48 + n>> ELSE Append(Digits(n \div 10), 48 + (n % 10))

\* an unmappable scalar value becomes the numeric character reference &#NNNN;
encode_cp(c) ==
    IF c < 128 \/ (c >= 160 /\ c <= 255) THEN <<c>>
    ELSE IF \E i \in 1..Len(W1252High) : W1252High[i] = c
         THEN <<127 + (CHOOSE i \in 1..Len(W1252High) : W1252High[i] = c)>>
         ELSE <<38, 35>> \o Digits(c) \o <<59>>

RECURSIVE encode_cps(_)
encode_cps(t) == IF t = <<>> THEN <<>> ELSE encode_cp(Head(t)) \o encode_cps(Tail(t))

\* WINDOWS_1252.encode(string).0 : Cow<[u8]>, borrowed when the whole input is ASCII
w1252_encode(string) ==
    LET bytes == Utf8Encode(string)
    IN IF ascii_valid_up_to(bytes) = Len(bytes)
       THEN [cow |-> "Borrowed", bytes |-> bytes]
       ELSE [cow |-> "Owned", bytes |-> encode_cps(string)]

(***************************************************************************)
(* Latin1Str and Latin1String. A value is its type and its `inner` bytes;  *)
(* a Cow<Latin1Str> is its variant and the value it carries.               *)
(***************************************************************************)
\* Latin1Str::from_bytes_unchecked: the cast, no check
from_bytes_unchecked(text) == [ty |-> "Latin1Str", inner |-> text]

\* Latin1String::new: no check either
Latin1String_new(inner) == [ty |-> "Latin1String", inner |-> inner]

from_bytes_until_nul(bytes) ==
    LET nullpos == memchr(NUL, bytes)
    IN IF nullpos # -1
       THEN from_bytes_unchecked(split_at_0(bytes, nullpos))
       ELSE from_bytes_unchecked(bytes)

Latin1Str_new(bytes) == from_bytes_until_nul(bytes)

as_bytes(v) == v.inner

len(v) == Len(v.inner)

is_empty(v) == v.inner = <<>>

to_owned(s) == [ty |-> "Latin1String", inner |-> as_bytes(s)]

borrow(o) == from_bytes_unchecked(o.inner)

deref(o) == borrow(o)

\* From<&Latin1Str> for Latin1String
from_ref(s) == to_owned(s)

\* From<Cow<Latin1Str>> for Latin1String: Cow::into_owned
from_cow(c) == IF c.cow = "Owned" THEN c.val ELSE to_owned(c.val)

CowOf(variant, v) == [ty |-> "Cow", cow |-> variant, val |-> v]

encode_always_owned(string) ==
    CowOf("Owned", [ty |-> "Latin1String", inner |-> encode_cps(string)])

encode(string) ==
    LET res == w1252_encode(string)
    IN IF res.cow = "Owned"
       THEN CowOf("Owned", [ty |-> "Latin1String", inner |-> res.bytes])
       ELSE CowOf("Borrowed", from_bytes_unchecked(res.bytes))

\* the bytes a value of any of the three shapes holds
BytesOf(v) == IF v.ty = "Cow" THEN as_bytes(v.val) ELSE as_bytes(v)

(***************************************************************************)
(* Streams. fill_buf's outcome is scheduled: an error of some kind, or a   *)
(* buffer of up to n bytes (nothing at the end of the stream). When the    *)
(* schedule is used up, fill_buf delivers everything that is left.         *)
(***************************************************************************)
Ok(v) == [tag |-> "Ok", val |-> v, kind |-> "-"]
Err(k) == [tag |-> "Err", val |-> None, kind |-> k]

ErrorKinds == {"Interrupted", "BrokenPipe", "TimedOut"}

FillErr(kind) == [k |-> "Err", kind |-> kind, n |-> 0]
FillData(n) == [k |-> "Data", kind |-> "-", n |-> n]

\* io::Error::is_interrupted
is_interrupted(kind) == kind = "Interrupted"

delimiter_left_in_stream(i) == i

\* the bytes read_until takes when the delimiter is at index i of the buffer: available[..=i]
used_through(i) == i + 1

\* std's BufRead::read_until (the default method), called with an empty or growing buf
RECURSIVE read_until(_, _, _, _, _, _, _)
read_until(stream, p, delim, buf, sched, read, trace) ==
    LET ev == IF sched = <<>> THEN FillData(Len(stream)) ELSE Head(sched)
        rest == IF sched = <<>> THEN <<>> ELSE Tail(sched)
    IN IF ev.k = "Err"
       THEN IF is_interrupted(ev.kind)
            THEN read_until(stream, p, delim, buf, rest, read, Append(trace, ev.kind))
            ELSE [ret |-> Err(ev.kind), buf |-> buf, pos |-> p,
                  trace |-> Append(trace, ev.kind)]
       ELSE LET available == SubSeq(stream, p + 1, Min(Len(stream), p + ev.n))
                i == memchr(delim, available)
                done == i # -1
                used == IF done THEN used_through(i) ELSE Len(available)
                buf2 == buf \o SubSeq(available, 1, IF done THEN i + 1 ELSE Len(available))
                trace2 == Append(trace, IF available = <<>> THEN "eof" ELSE "data")
            IN IF done \/ used = 0
               THEN [ret |-> Ok(read + used), buf |-> buf2, pos |-> p + used, trace |-> trace2]
               ELSE read_until(stream, p + used, delim, buf2, rest, read + used, trace2)

pop_always(string) == SubSeq(string, 1, Len(string) - 1)

pop_never(string) == string

\* if string.ends_with(&[0x00]) { string.pop(); }
strip_terminator(string) ==
    IF string # <<>> /\ string[Len(string)] = NUL
    THEN SubSeq(string, 1, Len(string) - 1)
    ELSE string

read_cstring_keep_partial(stream, p, sched) ==
    LET r == read_until(stream, p, NUL, <<>>, sched, 0, <<>>)
    IN [ret |-> Ok(Latin1String_new(strip_terminator(r.buf))), pos |-> r.pos, trace |-> r.trace]

read_cstring(stream, p, sched) ==
    LET r == read_until(stream, p, NUL, <<>>, sched, 0, <<>>)
    IN IF r.ret.tag = "Err"
       THEN [ret |-> Err(r.ret.kind), pos |-> r.pos, trace |-> r.trace]
       ELSE [ret |-> Ok([ty |-> "Latin1String", inner |-> strip_terminator(r.buf)]),
             pos |-> r.pos, trace |-> r.trace]

(***************************************************************************)
(* Spec: the safe public operations, one call after another. `cur` is the  *)
(* value the last call returned, `call` the operation and its argument.    *)
(***************************************************************************)
IdleOrd == pair = <<None, None>> /\ cmpres = None
IdleCodec == src = <<>> /\ held = None /\ txt = None /\ rounds = <<>>
IdleStream == content = <<>> /\ pos = 0 /\ results = <<>> /\ last = None

InitValues ==
    /\ cur = None
    /\ call = [op |-> "none", arg |-> None]
    /\ IdleOrd /\ IdleCodec /\ IdleStream

FromBytesUntilNul == \E bytes \in ByteInputs :
    /\ cur' = from_bytes_until_nul(bytes)
    /\ call' = [op |-> "from_bytes_until_nul", arg |-> bytes]
    /\ UNCHANGED <<ordVars, codecVars, streamVars>>

New == \E bytes \in ByteInputs :
    /\ cur' = Latin1Str_new(bytes)
    /\ call' = [op |-> "new", arg |-> bytes]
    /\ UNCHANGED <<ordVars, codecVars, streamVars>>

Encode == \E string \in TextInputs :
    /\ cur' = encode(string)
    /\ call' = [op |-> "encode", arg |-> string]
    /\ UNCHANGED <<ordVars, codecVars, streamVars>>

\* read_cstring on a fresh Cursor over `bytes`; a Cursor's fill_buf never fails
ReadCstringCursor == \E bytes \in ByteInputs :
    /\ cur' = read_cstring(bytes, 0, <<>>).ret.val
    /\ call' = [op |-> "read_cstring", arg |-> bytes]
    /\ UNCHANGED <<ordVars, codecVars, streamVars>>

ToOwned ==
    /\ cur.ty = "Latin1Str"
    /\ cur' = to_owned(cur)
    /\ call' = [op |-> "to_owned", arg |-> cur]
    /\ UNCHANGED <<ordVars, codecVars, streamVars>>

FromRef ==
    /\ cur.ty = "Latin1Str"
    /\ cur' = from_ref(cur)
    /\ call' = [op |-> "from_ref", arg |-> cur]
    /\ UNCHANGED <<ordVars, codecVars, streamVars>>

FromCow ==
    /\ cur.ty = "Cow"
    /\ cur' = from_cow(cur)
    /\ call' = [op |-> "from_cow", arg |-> cur]
    /\ UNCHANGED <<ordVars, codecVars, streamVars>>

Borrow ==
    /\ cur.ty = "Latin1String"
    /\ cur' = borrow(cur)
    /\ call' = [op |-> "borrow", arg |-> cur]
    /\ UNCHANGED <<ordVars, codecVars, streamVars>>

Deref ==
    /\ cur.ty = "Latin1String"
    /\ cur' = deref(cur)
    /\ call' = [op |-> "deref", arg |-> cur]
    /\ UNCHANGED <<ordVars, codecVars, streamVars>>

NextValues ==
    \/ FromBytesUntilNul
    \/ New
    \/ Encode
    \/ ReadCstringCursor
    \/ ToOwned
    \/ FromRef
    \/ FromCow
    \/ Borrow
    \/ Deref

Spec == InitValues /\ [][NextValues]_vars

(***************************************************************************)
(* Claims checked under Spec.                                              *)
(***************************************************************************)
\* C1: every value a sequence of safe operations produces holds no 0x00 byte.
C1_NoNulAnywhere == cur # None => ~HasNul(BytesOf(cur))

\* C2: whatever the text, the value encode returns (borrowed or owned) holds no 0x00 byte.
C2_EncodeNulFree ==
    call.op = "encode" => \A i \in 1..Len(as_bytes(cur.val)) : as_bytes(cur.val)[i] # NUL

FirstNulAt(b, i) == b[i] = NUL /\ \A j \in 1..(i - 1) : b[j] # NUL

\* C3: from_bytes_until_nul(b) always returns a Latin1Str; its bytes are b up to, and
\* without, the first 0x00 of b, and all of b when b holds no 0x00.
C3_UntilNul ==
    call.op = "from_bytes_until_nul" =>
        /\ cur.ty = "Latin1Str"
        /\ (~HasNul(call.arg) => as_bytes(cur) = call.arg)
        /\ \A i \in 1..Len(call.arg) :
              FirstNulAt(call.arg, i) => as_bytes(cur) = SubSeq(call.arg, 1, i - 1)
        /\ (call.arg = <<>> \/ (call.arg # <<>> /\ call.arg[1] = NUL) => is_empty(cur))

C3_Witness ==
    /\ call.op = "from_bytes_until_nul"
    /\ call.arg = <<65, 0, 0>>
    /\ as_bytes(cur) = <<65>>

IsAscii(t) == \A i \in 1..Len(t) : t[i] <= 127

RECURSIVE utf8_decode_from(_, _, _, _, _, _, _)
utf8_decode_from(bytes, i, need, cp, lo, hi, out) ==
    IF i > Len(bytes) THEN (IF need # 0 THEN Append(out, 65533) ELSE out)
    ELSE LET b == bytes[i]
         IN IF need = 0
            THEN IF b <= 127
                 THEN utf8_decode_from(bytes, i + 1, 0, 0, 128, 191, Append(out, b))
                 ELSE IF b >= 194 /\ b <= 223
                 THEN utf8_decode_from(bytes, i + 1, 1, b % 32, 128, 191, out)
                 ELSE IF b >= 224 /\ b <= 239
                 THEN utf8_decode_from(bytes, i + 1, 2, b % 16,
                                       IF b = 224 THEN 160 ELSE 128,
                                       IF b = 237 THEN 159 ELSE 191, out)
                 ELSE IF b >= 240 /\ b <= 244
                 THEN utf8_decode_from(bytes, i + 1, 3, b % 8,
                                       IF b = 240 THEN 144 ELSE 128,
                                       IF b = 244 THEN 143 ELSE 191, out)
                 ELSE utf8_decode_from(bytes, i + 1, 0, 0, 128, 191, Append(out, 65533))
            ELSE IF b < lo \/ b > hi
                 THEN utf8_decode_from(bytes, i, 0, 0, 128, 191, Append(out, 65533))
                 ELSE IF need = 1
                 THEN utf8_decode_from(bytes, i + 1, 0, 0, 128, 191,
                                       Append(out, cp * 64 + (b % 64)))
                 ELSE utf8_decode_from(bytes, i + 1, need - 1, cp * 64 + (b % 64),
                                       128, 191, out)

utf8_decode(bytes) == utf8_decode_from(bytes, 1, 0, 0, 128, 191, <<>>)

Unit16(bytes, i, be) ==
    IF be THEN bytes[i] * 256 + bytes[i + 1] ELSE bytes[i + 1] * 256 + bytes[i]

\* the UTF-16 decoder of the Encoding Standard
RECURSIVE utf16_decode_from(_, _, _, _)
utf16_decode_from(bytes, i, be, out) ==
    IF i > Len(bytes) THEN out
    ELSE IF i = Len(bytes) THEN Append(out, 65533)
    ELSE LET u == Unit16(bytes, i, be)
         IN IF u >= 55296 /\ u <= 56319
            THEN IF i + 3 <= Len(bytes)
                    /\ Unit16(bytes, i + 2, be) >= 56320 /\ Unit16(bytes, i + 2, be) <= 57343
                 THEN utf16_decode_from(bytes, i + 4, be,
                          Append(out, 65536 + (u - 55296) * 1024
                                      + (Unit16(bytes, i + 2, be) - 56320)))
                 ELSE IF i + 2 >= Len(bytes)
                 THEN Append(out, 65533)
                 ELSE utf16_decode_from(bytes, i + 2, be, Append(out, 65533))
            ELSE IF u >= 56320 /\ u <= 57343
            THEN utf16_decode_from(bytes, i + 2, be, Append(out, 65533))
            ELSE utf16_decode_from(bytes, i + 2, be, Append(out, u))

RECURSIVE w1252_decode_bytes(_)
w1252_decode_bytes(bytes) ==
    IF bytes = <<>> THEN <<>>
    ELSE <<decode_byte(Head(bytes))>> \o w1252_decode_bytes(Tail(bytes))

StartsWith(bytes, prefix) ==
    Len(bytes) >= Len(prefix) /\ SubSeq(bytes, 1, Len(prefix)) = prefix

\* Encoding::for_bom
for_bom(bytes) ==
    IF StartsWith(bytes, <<239, 187, 191>>) THEN [enc |-> "UTF-8", len |-> 3]
    ELSE IF StartsWith(bytes, <<255, 254>>) THEN [enc |-> "UTF-16LE", len |-> 2]
    ELSE IF StartsWith(bytes, <<254, 255>>) THEN [enc |-> "UTF-16BE", len |-> 2]
    ELSE [enc |-> "windows-1252", len |-> 0]

\* WINDOWS_1252.decode(bytes).0
w1252_decode(bytes) ==
    LET bom == for_bom(bytes)
        without_bom == SubSeq(bytes, bom.len + 1, Len(bytes))
    IN IF bom.enc = "UTF-8" THEN utf8_decode(without_bom)
       ELSE IF bom.enc = "UTF-16LE" THEN utf16_decode_from(without_bom, 1, FALSE, <<>>)
       ELSE IF bom.enc = "UTF-16BE" THEN utf16_decode_from(without_bom, 1, TRUE, <<>>)
       ELSE w1252_decode_bytes(without_bom)

decode(s) == w1252_decode(as_bytes(s))

(***************************************************************************)
(* Derived equality and ordering: both structs hold one field, a byte      *)
(* slice, and the derives compare that field with the slice impls.         *)
(***************************************************************************)
\* <[u8] as PartialEq>::eq
slice_eq(x, y) == Len(x) = Len(y) /\ \A i \in 1..Len(x) : x[i] = y[i]

CmpInt(m, n) == IF m < n THEN "Less" ELSE IF m > n THEN "Greater" ELSE "Equal"

\* <[u8] as Ord>::cmp: memcmp over the common length, then the lengths
RECURSIVE slice_cmp_from(_, _, _)
slice_cmp_from(x, y, i) ==
    IF i > Min(Len(x), Len(y)) THEN CmpInt(Len(x), Len(y))
    ELSE IF x[i] # y[i] THEN CmpInt(x[i], y[i])
    ELSE slice_cmp_from(x, y, i + 1)

slice_cmp_length_first(x, y) ==
    IF Len(x) # Len(y) THEN CmpInt(Len(x), Len(y)) ELSE slice_cmp_from(x, y, 1)

slice_cmp(x, y) == slice_cmp_from(x, y, 1)

\* #[derive(PartialEq, Eq)]
derived_eq(a, b) == slice_eq(a.inner, b.inner)

\* #[derive(PartialOrd, Ord)]
derived_cmp(a, b) == slice_cmp(a.inner, b.inner)

(***************************************************************************)
(* SpecOrd: two values built by the safe constructors, then compared.      *)
(***************************************************************************)
IdleValues == cur = None /\ call = [op |-> "none", arg |-> None]

InitOrd ==
    /\ pair = <<None, None>>
    /\ cmpres = None
    /\ IdleValues /\ IdleCodec /\ IdleStream

WrapStr == \E slot \in {1, 2}, bytes \in OrdInputs :
    /\ pair' = [pair EXCEPT ![slot] = from_bytes_until_nul(bytes)]
    /\ cmpres' = None
    /\ UNCHANGED <<valueVars, codecVars, streamVars>>

WrapString == \E slot \in {1, 2}, bytes \in OrdInputs :
    /\ pair' = [pair EXCEPT ![slot] = to_owned(from_bytes_until_nul(bytes))]
    /\ cmpres' = None
    /\ UNCHANGED <<valueVars, codecVars, streamVars>>

\* a == b and a.cmp(&b), for two values of the same type
Compare ==
    /\ pair[1] # None
    /\ pair[1].ty = pair[2].ty
    /\ cmpres' = [eq |-> derived_eq(pair[1], pair[2]), ord |-> derived_cmp(pair[1], pair[2])]
    /\ UNCHANGED <<pair, valueVars, codecVars, streamVars>>

NextOrd ==
    \/ WrapStr
    \/ WrapString
    \/ Compare

SpecOrd == InitOrd /\ [][NextOrd]_vars

\* x orders before y lexicographically: they agree on the first k bytes, and then x ends
\* while y goes on, or the next byte of x is the smaller one
LexLess(x, y) ==
    \E k \in 0..Min(Len(x), Len(y)) :
        /\ SubSeq(x, 1, k) = SubSeq(y, 1, k)
        /\ k < Len(y)
        /\ (k = Len(x) \/ x[k + 1] < y[k + 1])

\* C8: a == b exactly when the bytes are the same, and the ordering is the lexicographic
\* ordering of the bytes, a strict prefix first.
C8_Bytewise ==
    cmpres # None =>
        LET x == as_bytes(pair[1])
            y == as_bytes(pair[2])
        IN /\ cmpres.eq <=> (x = y)
           /\ (cmpres.ord = "Equal") <=> (x = y)
           /\ (cmpres.ord = "Less") <=> LexLess(x, y)
           /\ (cmpres.ord = "Greater") <=> LexLess(y, x)

\* the bytes order one way and the decoded text the other: 0x80 is U+20AC, 0xFC is U+00FC
C8_Witness ==
    /\ cmpres # None
    /\ cmpres.ord = "Less"
    /\ as_bytes(pair[1]) = <<128>>
    /\ as_bytes(pair[2]) = <<252, 65>>
    /\ pair[1].ty = "Latin1String"
    /\ slice_cmp(Utf8Encode(decode(pair[1])), Utf8Encode(decode(pair[2]))) = "Greater"

(***************************************************************************)
(* SpecCodec: a nul-free byte slice is wrapped, decoded, and the text      *)
(* encoded again, twice over.                                              *)
(***************************************************************************)

\* 'A', 0x80, 0xBE, 0xBF, 0xC3, 0xFC
CodecAlphabet == {65, 128, 190, 191, 195, 252}
BomPrefixes == {<<>>, <<239, 187, 191>>, <<255, 254>>, <<254, 255>>}
CodecInputs == {p \o b : p \in BomPrefixes, b \in SeqsUpTo(CodecAlphabet, MaxBodyLen)}

InitCodec ==
    /\ src \in CodecInputs
    /\ held = from_bytes_until_nul(src)
    /\ txt = None
    /\ rounds = <<>>
    /\ IdleValues /\ IdleOrd /\ IdleStream

DecodeHeld ==
    /\ txt = None
    /\ Len(rounds) < MaxRounds
    /\ txt' = [ty |-> "str", text |-> decode(held)]
    /\ UNCHANGED <<src, held, rounds, valueVars, ordVars, streamVars>>

\* the Cow<Latin1Str> encode returns is used through its Deref to Latin1Str
EncodeText ==
    /\ txt # None
    /\ LET c == encode(txt.text)
           v == IF c.cow = "Owned" THEN deref(c.val) ELSE c.val
       IN /\ held' = v
          /\ rounds' = Append(rounds, as_bytes(v))
    /\ txt' = None
    /\ UNCHANGED <<src, valueVars, ordVars, streamVars>>

NextCodec ==
    \/ DecodeHeld
    \/ EncodeText

SpecCodec == InitCodec /\ [][NextCodec]_vars

\* C9: with r(b) the bytes of encode(decode(b)), r(r(b)) = r(b) for every nul-free b.
C9_Idempotent == Len(rounds) >= 2 => rounds[2] = rounds[1]

(***************************************************************************)
(* SpecStream: read_cstring called again and again on one stream. Each     *)
(* call draws the outcomes of its fill_buf calls. `results` are the values *)
(* returned so far; `last` records where the last call started and what    *)
(* its fill_buf calls reported, in order.                                  *)
(***************************************************************************)
\* 0x00, 'H', 'W'
StreamAlphabet == {0, 72, 87}
StreamInputs == SeqsUpTo(StreamAlphabet, MaxStream)

\* a scheduled fill delivers a single byte
ChunkSizes == {1}
FillOutcomes == {FillErr(k) : k \in ErrorKinds} \cup {FillData(n) : n \in ChunkSizes}
Schedules == SeqsUpTo(FillOutcomes, MaxSched)

InitStream ==
    /\ content \in StreamInputs
    /\ pos = 0
    /\ results = <<>>
    /\ last = None
    /\ IdleValues /\ IdleOrd /\ IdleCodec

ReadCstring ==
    /\ Len(results) < MaxCalls
    /\ \E sched \in Schedules :
          LET r == read_cstring(content, pos, sched)
          IN /\ pos' = r.pos
             /\ results' = Append(results, r.ret)
             /\ last' = [ty |-> "call", start |-> pos, trace |-> r.trace, ret |-> r.ret]
    /\ UNCHANGED <<content, valueVars, ordVars, codecVars>>

NextStream == ReadCstring

SpecStream == InitStream /\ [][NextStream]_vars

Remaining(s, p) == SubSeq(s, p + 1, Len(s))

NoFailure(trace) == \A j \in 1..Len(trace) : trace[j] \notin ErrorKinds

OkString(bytes) == Ok([ty |-> "Latin1String", inner |-> bytes])

\* C4: with a 0x00 in what is left of the stream and no I/O failure, read_cstring returns
\* the bytes before the first 0x00 and leaves the stream right after that 0x00.
C4_StopsAfterTerminator ==
    (last # None /\ NoFailure(last.trace) /\ HasNul(Remaining(content, last.start))) =>
        LET rem == Remaining(content, last.start)
            i == CHOOSE i \in 1..Len(rem) : FirstNulAt(rem, i)
        IN /\ last.ret = OkString(SubSeq(rem, 1, i - 1))
           /\ pos = last.start + i
           /\ Remaining(content, pos) = SubSeq(rem, i + 1, Len(rem))

C4_Witness ==
    /\ content = <<72, 0, 87>>
    /\ last # None
    /\ last.start = 0
    /\ last.trace = <<"data">>
    /\ last.ret = OkString(<<72>>)
    /\ Remaining(content, pos) = <<87>>

\* C5: with no 0x00 in what is left of the stream and no I/O failure, read_cstring returns
\* Ok with all the bytes that were left, and the stream is at its end.
C5_EndOfStreamIsOk ==
    (last # None /\ NoFailure(last.trace) /\ ~HasNul(Remaining(content, last.start))) =>
        /\ last.ret = OkString(Remaining(content, last.start))
        /\ pos = Len(content)

C5_Witness ==
    /\ content = <<0, 87, 72>>
    /\ last # None
    /\ last.start = 1
    /\ last.trace = <<"data", "data", "eof">>
    /\ last.ret = OkString(<<87, 72>>)
    /\ pos = 3

\* C6 as stated: any failure fill_buf reports ends the call, which returns that failure.
C6_AnyFailureReturned ==
    last # None =>
        \A j \in 1..Len(last.trace) :
            last.trace[j] \in ErrorKinds => (j = Len(last.trace) /\ last.ret = Err(last.trace[j]))

\* C6, amended: a failure of a kind other than Interrupted ends the call at once (no later
\* fill_buf), and the call returns that failure and no value; an Interrupted failure is
\* never returned: the read is tried again.
C6_FailureReturnedUnlessInterrupted ==
    last # None =>
        /\ \A j \in 1..Len(last.trace) :
              /\ last.trace[j] \in ErrorKinds \ {"Interrupted"} =>
                    /\ j = Len(last.trace)
                    /\ last.ret = Err(last.trace[j])
                    /\ last.ret.val = None
              /\ last.trace[j] = "Interrupted" => j < Len(last.trace)
        /\ last.ret.tag = "Err" =>
              /\ last.ret.kind # "Interrupted"
              /\ last.trace[Len(last.trace)] = last.ret.kind

C6_Witness ==
    /\ content = <<72, 87, 0>>
    /\ last # None
    /\ last.start = 0
    /\ last.trace = <<"data", "TimedOut">>
    /\ last.ret = Err("TimedOut")
    /\ pos = 1

RECURSIVE SplitNul(_)
SplitNul(s) ==
    IF ~HasNul(s) THEN <<s>>
    ELSE LET i == CHOOSE i \in 1..Len(s) : FirstNulAt(s, i)
         IN <<SubSeq(s, 1, i - 1)>> \o SplitNul(SubSeq(s, i + 1, Len(s)))

Segment(s, k) == IF k <= Len(SplitNul(s)) THEN SplitNul(s)[k] ELSE <<>>

RECURSIVE ThroughSegment(_, _)
ThroughSegment(s, k) ==
    IF k = 0 THEN 0 ELSE ThroughSegment(s, k - 1) + Len(Segment(s, k)) + 1

\* C10: as long as no call has failed, the k-th call returned the k-th segment of the
\* content split at its 0x00 bytes (an empty value past the last one), the stream is just
\* past the k-th segment and its terminator, and a call made at the end of the stream
\* returns what reading an empty string and a terminator returns, consuming nothing.
C10_Segments ==
    (\A k \in 1..Len(results) : results[k].tag = "Ok") =>
        /\ \A k \in 1..Len(results) : results[k] = OkString(Segment(content, k))
        /\ pos = Min(Len(content), ThroughSegment(content, Len(results)))
        /\ (last # None /\ last.start = Len(content)) =>
              /\ pos = last.start
              /\ last.ret = read_cstring(<<NUL>>, 0, <<>>).ret

C10_Witness ==
    /\ content = <<72, 0, 87>>
    /\ results = <<OkString(<<72>>), OkString(<<87>>), OkString(<<>>)>>
    /\ last.start = 3
    /\ pos = 3

====
